---- MODULE Spec2Model ----
(***************************************************************************)
(* Model of library/rpi_ws281x/rpi_ws281x.py: the RGBW colour packing, the *)
(* PixelStrip lifecycle (begin / show / _cleanup), pixel access, the       *)
(* brightness accessors and createPixelSubStrip.                           *)
(*                                                                         *)
(* Python integers are unbounded; a packed colour can exceed 32 bits, so   *)
(* an integer is represented by its little-endian base-256 digits with no  *)
(* trailing zero digit (0 is the empty sequence).                          *)
(***************************************************************************)
EXTENDS Integers, Sequences, FiniteSets, TLC

\* ---------------------------------------------------------------- bounds
MaxNum == 2
NumThreads == 2
MaxOver == 2

\* Python's None for an omitted integer argument.
None == -1

Threads == 1..NumThreads

\* ------------------------------------------------- arbitrary-size integers
RECURSIVE Digits(_)
Digits(n) == IF n = 0 THEN <<>> ELSE <<n % 256>> \o Digits(n \div 256)

RECURSIVE Norm(_)
Norm(d) ==
    IF d = <<>> THEN <<>>
    ELSE IF d[Len(d)] = 0 THEN Norm(SubSeq(d, 1, Len(d) - 1))
    ELSE d

\* x << bits, for the shifts of the source (8, 16, 24)
Shl(d, bits) == IF d = <<>> THEN <<>> ELSE [i \in 1..(bits \div 8) |-> 0] \o d

\* x >> bits, for the shifts of the source (8, 16, 24)
Shr(d, bits) == SubSeq(d, (bits \div 8) + 1, Len(d))

RECURSIVE OrByte(_, _)
OrByte(x, y) ==
    IF x = 0 THEN y
    ELSE IF y = 0 THEN x
    ELSE LET bx == x % 2
             by == y % 2
         IN  (IF bx = 1 \/ by = 1 THEN 1 ELSE 0) + 2 * OrByte(x \div 2, y \div 2)

DigitAt(d, i) == IF i <= Len(d) THEN d[i] ELSE 0

\* x | y
Or(d1, d2) ==
    LET n == IF Len(d1) > Len(d2) THEN Len(d1) ELSE Len(d2)
    IN  Norm([i \in 1..n |-> OrByte(DigitAt(d1, i), DigitAt(d2, i))])

\* x & 0xff
And0xff(d) == DigitAt(d, 1)

\* ------------------------------------------------------------ class RGBW
\* RGBW with red and green packed in each other's place: a faulty variant that
\* ColorRoundTrip must reject.
RGBW_swapped(r, g, b, w) ==
    IF g = None /\ b = None /\ w = None
    THEN Digits(r)
    ELSE LET w2 == IF w = None THEN 0 ELSE w
         IN  Or(Or(Or(Shl(Digits(w2), 24), Shl(Digits(g), 16)),
                   Shl(Digits(r), 8)),
                Digits(b))

RGBW(r, g, b, w) ==
    IF g = None /\ b = None /\ w = None
    THEN Digits(r)
    ELSE LET w2 == IF w = None THEN 0 ELSE w
         IN  Or(Or(Or(Shl(Digits(w2), 24), Shl(Digits(r), 16)),
                   Shl(Digits(g), 8)),
                Digits(b))

RGBW_r(p) == And0xff(Shr(p, 16))
RGBW_g(p) == And0xff(Shr(p, 8))
RGBW_b(p) == And0xff(p)
RGBW_w(p) == And0xff(Shr(p, 24))

Color(red, green, blue, white) == RGBW(red, green, blue, white)

\* ------------------------------------------------------------ inputs
\* Return codes of the native ws2811_init / ws2811_render (0 is success).
RespCodes == {0, -1, -9}

BrightVals == {0, 128, 255}

\* (red, green, blue, white) arguments used for pixel writes: in range, a
\* component of 256 that carries into the next byte, one that needs 33 bits.
RGBInputs == {<<0, 0, 0, 0>>, <<255, 0, 0, 0>>, <<0, 0, 256, 0>>, <<0, 0, 0, 256>>}

ColorInputs == {Color(c[1], c[2], c[3], c[4]) : c \in RGBInputs}

\* Components for the colour-packing specification: in-range values and
\* values above 255.
ComponentVals == {0, 1, 128, 255} \cup (256..(255 + MaxOver))

\* What a uint32 element can hold of a wider value (its low four bytes).
Wrap32(p) == Norm(SubSeq(p, 1, IF Len(p) < 4 THEN Len(p) ELSE 4))

StoredVals == {Wrap32(c) : c \in ColorInputs}

\* Instance attributes PixelStrip.__init__ assigns.
PixelStripAttrs == {"_leds", "_channel", "size", "_view", "_colors"}

HasAttr(a) == a \in PixelStripAttrs

\* -------------------------------------------------------------- state
VARIABLES
    size,         \* self.size = num
    leds,         \* self._leds: "handle" or "None"
    channel,      \* self._channel: "handle" or "None"
    initialized,  \* the native driver is Ready: ws2811_init succeeded, no fini since
    view,         \* self._view: the pixel array (empty before begin)
    brightness,   \* the channel's brightness field
    subs,         \* the PixelSubStrip objects createPixelSubStrip has returned
    pc,           \* per thread: "idle", or "render" while inside ws2811_render
    passed,       \* per thread: the handle given to ws2811_render
    finiCalls,    \* number of native ws2811_fini / delete_ws2811_t calls
    lastCall,     \* the last completed call and how it ended
    crashed,      \* the process died inside the native library
    colorIn,      \* arguments of Color (colour-packing specification)
    colorOut      \* its result

vars == <<size, leds, channel, initialized, view, brightness, subs, pc, passed,
          finiCalls, lastCall, crashed, colorIn, colorOut>>

colorVars == <<colorIn, colorOut>>

\* A completed call: its name, whether it reached the native library, the
\* native return code, the exception raised ("none" if it returned), its
\* integer arguments and its return value.
Call(op, native, resp, exc, a, l, n, ret) ==
    [op |-> op, native |-> native, resp |-> resp, exc |-> exc,
     first |-> a, last |-> l, num |-> n, ret |-> ret]

Done(op, native, resp, exc) == Call(op, native, resp, exc, None, None, None, None)

\* len(self) == self._view.shape[0]
PyLen == Len(view)

numPixels == PyLen

Zeros(n) == [i \in 1..n |-> <<>>]

\* ws2811_array_get(channel): the channel's led array, count entries.
ws2811_array_get == Zeros(size)

\* PixelStrip(num, pin, brightness=...)
Init ==
    /\ size \in 0..MaxNum
    /\ leds = "handle"
    /\ channel = "handle"
    /\ initialized = FALSE
    /\ view = <<>>
    /\ brightness \in BrightVals
    /\ subs = {}
    /\ pc = [t \in Threads |-> "idle"]
    /\ passed = [t \in Threads |-> "None"]
    /\ finiCalls = 0
    /\ lastCall = Done("__init__", FALSE, 0, "none")
    /\ crashed = FALSE
    /\ colorIn = <<0, 0, 0, 0>>
    /\ colorOut = [done |-> FALSE, pix |-> <<>>]

\* ------------------------------------------------------- PixelStrip
\* Every array of the view's shape over the storable values: what the view
\* shows once ws2811_fini has released the memory it wraps.
Indeterminate == [1..Len(view) -> StoredVals]

\* _cleanup without its guard on self._leds: a faulty variant that CleanupIdempotent must reject.
Cleanup_noGuard ==
    /\ ~crashed
    /\ finiCalls' = IF finiCalls < 2 THEN finiCalls + 1 ELSE finiCalls
    /\ leds' = "None"
    /\ channel' = "None"
    /\ initialized' = FALSE
    /\ view' \in Indeterminate
    /\ lastCall' = Done("_cleanup", TRUE, 0, "none")
    /\ UNCHANGED <<size, brightness, subs, pc, passed, crashed, colorVars>>

\* PixelStrip._cleanup
Cleanup ==
    /\ ~crashed
    /\ IF leds # "None"
       THEN /\ finiCalls' = finiCalls + 1
            /\ leds' = "None"
            /\ channel' = "None"
            /\ initialized' = FALSE
            /\ view' \in Indeterminate
            /\ lastCall' = Done("_cleanup", TRUE, 0, "none")
       ELSE /\ lastCall' = Done("_cleanup", FALSE, 0, "none")
            /\ UNCHANGED <<finiCalls, leds, channel, initialized, view>>
    /\ UNCHANGED <<size, brightness, subs, pc, passed, crashed, colorVars>>

\* A native call handed None as its ws2811_t: the binding rejects it or the
\* library dereferences it.
NullHandle(op) ==
    \/ /\ lastCall' = Done(op, TRUE, 0, "TypeError")
       /\ crashed' = FALSE
    \/ /\ lastCall' = Done(op, TRUE, 0, "crash")
       /\ crashed' = TRUE

\* begin that never assigns self._view: a faulty variant that LenAfterBegin must reject.
Begin_noView ==
    /\ ~crashed
    /\ leds # "None"
    /\ \E resp \in RespCodes :
          IF resp # 0
          THEN /\ lastCall' = Done("begin", TRUE, resp, "RuntimeError")
               /\ UNCHANGED <<initialized, view>>
          ELSE /\ initialized' = TRUE
               /\ view' = view
               /\ lastCall' = Done("begin", TRUE, 0, "none")
    /\ UNCHANGED <<size, leds, channel, brightness, subs, pc, passed, finiCalls,
                   crashed, colorVars>>

\* PixelStrip.begin
Begin ==
    /\ ~crashed
    /\ IF leds = "None"
       THEN /\ NullHandle("begin")
            /\ UNCHANGED <<initialized, view>>
       ELSE /\ \E resp \in RespCodes :
                  IF resp # 0
                  THEN /\ lastCall' = Done("begin", TRUE, resp, "RuntimeError")
                       /\ UNCHANGED <<initialized, view>>
                  ELSE /\ initialized' = TRUE
                       /\ view' = ws2811_array_get
                       /\ lastCall' = Done("begin", TRUE, 0, "none")
            /\ UNCHANGED crashed
    /\ UNCHANGED <<size, leds, channel, brightness, subs, pc, passed, finiCalls,
                   colorVars>>

\* PixelStrip.show, up to the call of ws.ws2811_render(self._leds)
ShowCall(t) ==
    /\ ~crashed
    /\ pc[t] = "idle"
    /\ pc' = [pc EXCEPT ![t] = "render"]
    /\ passed' = [passed EXCEPT ![t] = leds]
    /\ UNCHANGED <<size, leds, channel, initialized, view, brightness, subs,
                   finiCalls, lastCall, crashed, colorVars>>

\* show that ignores the return code: a faulty variant that FailuresRaise must reject.
ShowReturn_swallow(t) ==
    /\ ~crashed
    /\ pc[t] = "render"
    /\ passed[t] # "None"
    /\ pc' = [pc EXCEPT ![t] = "idle"]
    /\ passed' = [passed EXCEPT ![t] = "None"]
    /\ \E resp \in RespCodes : lastCall' = Done("show", TRUE, resp, "none")
    /\ UNCHANGED <<size, leds, channel, initialized, view, brightness, subs,
                   finiCalls, crashed, colorVars>>

\* PixelStrip.show, from the return of ws.ws2811_render
ShowReturn(t) ==
    /\ ~crashed
    /\ pc[t] = "render"
    /\ pc' = [pc EXCEPT ![t] = "idle"]
    /\ passed' = [passed EXCEPT ![t] = "None"]
    /\ IF passed[t] = "None"
       THEN NullHandle("show")
       ELSE \/ /\ \E resp \in RespCodes :
                     lastCall' = Done("show", TRUE, resp,
                                      IF resp # 0 THEN "RuntimeError" ELSE "none")
               /\ UNCHANGED crashed
            \/ /\ ~initialized
               /\ lastCall' = Done("show", TRUE, 0, "crash")
               /\ crashed' = TRUE
    /\ UNCHANGED <<size, leds, channel, initialized, view, brightness, subs,
                   finiCalls, colorVars>>

\* ------------------------------------------------- _PixelStripBase
Index == (-1)..MaxNum

\* numpy integer indexing: -len <= n < len, negative n counts from the end
ValidIndex(n) == -Len(view) <= n /\ n < Len(view)

Position(n) == IF n < 0 THEN Len(view) + n + 1 ELSE n + 1

\* self._view[n] = value, on an array of 32-bit elements
SetItem(op, n, value) ==
    IF ~ValidIndex(n)
    THEN /\ lastCall' = Done(op, FALSE, 0, "IndexError")
         /\ UNCHANGED view
    ELSE IF Len(value) > 4
    THEN \/ /\ lastCall' = Done(op, FALSE, 0, "OverflowError")
            /\ UNCHANGED view
         \/ /\ lastCall' = Done(op, FALSE, 0, "none")
            /\ view' = [view EXCEPT ![Position(n)] = Wrap32(value)]
    ELSE /\ lastCall' = Done(op, FALSE, 0, "none")
         /\ view' = [view EXCEPT ![Position(n)] = value]

\* _PixelStripBase.__getitem__ / getPixelColor
GetItem(n) == view[Position(n)]

\* _PixelStripBase.setPixelColor / __setitem__
SetPixelColor(n, color) ==
    /\ ~crashed
    /\ SetItem("setPixelColor", n, color)
    /\ UNCHANGED <<size, leds, channel, initialized, brightness, subs, pc, passed,
                   finiCalls, crashed, colorVars>>

\* _PixelStripBase.setPixelColorRGB
SetPixelColorRGB(n, red, green, blue, white) ==
    /\ ~crashed
    /\ SetItem("setPixelColorRGB", n, Color(red, green, blue, white))
    /\ UNCHANGED <<size, leds, channel, initialized, brightness, subs, pc, passed,
                   finiCalls, crashed, colorVars>>

\* _PixelStripBase.off on the PixelStrip: the view is cleared, then the
\* lookup of self.strip fails (PixelStripAttrs) and show() is not reached.
Off ==
    /\ ~crashed
    /\ ~HasAttr("strip")
    /\ view' = Zeros(Len(view))
    /\ lastCall' = Done("off", FALSE, 0, "AttributeError")
    /\ UNCHANGED <<size, leds, channel, initialized, brightness, subs, pc, passed,
                   finiCalls, crashed, colorVars>>

\* _PixelStripBase.setBrightness on the PixelStrip
SetBrightness(b) ==
    /\ ~crashed
    /\ IF HasAttr("strip")
       THEN /\ brightness' = b
            /\ lastCall' = Call("setBrightness", TRUE, 0, "none", b, None, None, None)
       ELSE /\ lastCall' = Call("setBrightness", FALSE, 0, "AttributeError",
                                b, None, None, None)
            /\ UNCHANGED brightness
    /\ UNCHANGED <<size, leds, channel, initialized, view, subs, pc, passed,
                   finiCalls, crashed, colorVars>>

\* _PixelStripBase.getBrightness on the PixelStrip
GetBrightness ==
    /\ ~crashed
    /\ IF HasAttr("strip")
       THEN lastCall' = Call("getBrightness", TRUE, 0, "none",
                             None, None, None, brightness)
       ELSE lastCall' = Done("getBrightness", FALSE, 0, "AttributeError")
    /\ UNCHANGED <<size, leds, channel, initialized, view, brightness, subs, pc,
                   passed, finiCalls, crashed, colorVars>>

\* ------------------------------------------------------ sub-strips
\* Python truthiness of an optional integer argument
Truthy(x) == x # None /\ x # 0

Clip(i) == IF i > Len(view) THEN Len(view) ELSE i

\* The pixels a sub-strip object addresses: the slice first:last of the parent
SubView(s) == SubSeq(view, s.first + 1, s.last)

\* PixelStrip.PixelSubStrip.__init__(strip, first, last, num)
PixelSubStrip(first, last, num, a, l, n) ==
    LET last2 == IF last = None
                 THEN (IF num # None THEN first + num ELSE PyLen)
                 ELSE last
    IN  IF ~HasAttr("_values")
        THEN /\ lastCall' = Call("createPixelSubStrip", FALSE, 0, "AttributeError",
                                 a, l, n, None)
             /\ UNCHANGED subs
        ELSE /\ subs' = subs \cup {[first |-> Clip(first), last |-> Clip(last2)]}
             /\ lastCall' = Call("createPixelSubStrip", FALSE, 0, "none", a, l, n, None)

InvalidStrip(a, l, n) ==
    /\ lastCall' = Call("createPixelSubStrip", FALSE, 0, "InvalidStrip", a, l, n, None)
    /\ UNCHANGED subs

\* PixelStrip.createPixelSubStrip(first, last=None, num=None)
createPixelSubStrip(first, last, num) ==
    /\ ~crashed
    /\ IF Truthy(last)
       THEN IF last > PyLen
            THEN InvalidStrip(first, last, num)
            ELSE PixelSubStrip(first, last, None, first, last, num)
       ELSE IF Truthy(num)
       THEN IF first + num > PyLen
            THEN InvalidStrip(first, last, num)
            ELSE PixelSubStrip(first, None, num, first, last, num)
       ELSE PixelSubStrip(first, None, None, first, last, num)
    /\ UNCHANGED <<size, leds, channel, initialized, view, brightness, pc, passed,
                   finiCalls, crashed, colorVars>>

Bound == 0..(MaxNum + 1)

\* (last, num) as the docstring asks: "Either specify the num of pixels or
\* the last pixel", or neither.
SubArgs == {<<None, None>>} \cup {<<l, None>> : l \in Bound}
               \cup {<<None, n>> : n \in Bound}

\* ---------------------------------------------------- specifications
\* Lifecycle, rendering from several threads, and pixel access.
Next ==
    \/ Begin
    \/ \E t \in Threads : ShowCall(t)
    \/ \E t \in Threads : ShowReturn(t)
    \/ Cleanup
    \/ \E n \in Index, c \in ColorInputs : SetPixelColor(n, c)
    \/ \E n \in Index, c \in RGBInputs : SetPixelColorRGB(n, c[1], c[2], c[3], c[4])
    \/ Off

Spec == Init /\ [][Next]_vars

\* Brightness accessors and sub-strip creation on a strip that is begun,
\* written to and cleaned up.
NextSub ==
    \/ Begin
    \/ Cleanup
    \/ \E n \in Index, c \in ColorInputs : SetPixelColor(n, c)
    \/ \E b \in BrightVals : SetBrightness(b)
    \/ GetBrightness
    \/ \E first \in Bound, ln \in SubArgs : createPixelSubStrip(first, ln[1], ln[2])

SpecSub == Init /\ [][NextSub]_vars

\* Colour packing as a pure function: the arguments are drawn from
\* ComponentVals and Color is applied to them.
InitColor ==
    /\ size = 0
    /\ leds = "handle"
    /\ channel = "handle"
    /\ initialized = FALSE
    /\ view = <<>>
    /\ brightness = 255
    /\ subs = {}
    /\ pc = [t \in Threads |-> "idle"]
    /\ passed = [t \in Threads |-> "None"]
    /\ finiCalls = 0
    /\ lastCall = Done("__init__", FALSE, 0, "none")
    /\ crashed = FALSE
    /\ colorIn \in ComponentVals \X ComponentVals \X ComponentVals \X ComponentVals
    /\ colorOut = [done |-> FALSE, pix |-> <<>>]

CallColor ==
    /\ ~colorOut.done
    /\ colorOut' = [done |-> TRUE,
                    pix |-> Color(colorIn[1], colorIn[2], colorIn[3], colorIn[4])]
    /\ UNCHANGED <<size, leds, channel, initialized, view, brightness, subs, pc,
                   passed, finiCalls, lastCall, crashed, colorIn>>

NextColor == CallColor

SpecColor == InitColor /\ [][NextColor]_vars

\* ------------------------------------------------------------ claims
Rendering == {t \in Threads : pc[t] = "render"}

\* C1: a render is handed to the native driver only while the strip is
\* Ready, i.e. after a begin() that succeeded and before _cleanup(): every
\* thread inside ws2811_render passed a live handle to an initialised driver.
RenderOnlyWhileReady ==
    \A t \in Threads : pc[t] = "render" => (initialized /\ passed[t] # "None")

\* C2: _cleanup() always leaves _leds and _channel None and raises nothing;
\* called when _leds is already None it calls no native function and changes
\* nothing; the native ws2811_fini / delete_ws2811_t run at most once.
CleanupIdempotent ==
    /\ [](finiCalls <= 1)
    /\ [][Cleanup =>
            /\ leds' = "None"
            /\ channel' = "None"
            /\ lastCall'.exc = "none"
            /\ leds = "None" =>
                  /\ ~lastCall'.native
                  /\ UNCHANGED <<size, leds, channel, initialized, view, brightness,
                                 subs, pc, passed, finiCalls, crashed>>]_vars

\* C2 witness: a second _cleanup() has run after the one that called fini.
CleanupTwice ==
    /\ lastCall.op = "_cleanup"
    /\ ~lastCall.native
    /\ finiCalls = 1
    /\ leds = "None"
    /\ channel = "None"

\* C3: a nonzero code from ws2811_init makes begin() raise RuntimeError and
\* leaves the view and the driver state as they were (empty and uninitialised
\* if begin never succeeded); a nonzero code from ws2811_render makes show()
\* raise RuntimeError, leaves the pixel buffer unchanged and the thread free
\* to call show() again.
FailuresRaise ==
    /\ []((lastCall.op \in {"begin", "show"} /\ lastCall.resp # 0)
             => lastCall.exc = "RuntimeError")
    /\ [][(Begin /\ lastCall'.resp # 0) =>
            /\ lastCall'.exc = "RuntimeError"
            /\ view' = view
            /\ initialized' = initialized
            /\ ~crashed']_vars
    /\ [][\A t \in Threads : (ShowReturn(t) /\ lastCall'.resp # 0) =>
            /\ lastCall'.exc = "RuntimeError"
            /\ view' = view
            /\ pc'[t] = "idle"
            /\ ~crashed']_vars

\* C3 witness: show() has failed on a Ready strip holding a lit pixel.
ShowFailed ==
    /\ lastCall.op = "show"
    /\ lastCall.resp # 0
    /\ lastCall.exc = "RuntimeError"
    /\ initialized
    /\ \E i \in 1..Len(view) : view[i] # <<>>

\* The range a createPixelSubStrip(first, num=n) call asks for lies in the strip.
NumCallInRange ==
    /\ lastCall.op = "createPixelSubStrip"
    /\ initialized
    /\ lastCall.last = None
    /\ lastCall.num # None
    /\ lastCall.first + lastCall.num <= PyLen

\* C4: a sub-strip made on an initialised strip with start index first is a
\* view: its pixel i is the parent's pixel first + i.
SubStripIsView ==
    (NumCallInRange /\ lastCall.num > 0) =>
        /\ lastCall.exc = "none"
        /\ \E s \in subs :
              /\ s.first = lastCall.first
              /\ \A i \in 0..(lastCall.num - 1) :
                    SubView(s)[i + 1] = GetItem(lastCall.first + i)

\* C5: setBrightness(b) on the PixelStrip succeeds and getBrightness() then
\* returns b.
BrightnessShared ==
    /\ lastCall.op = "setBrightness" =>
          (lastCall.exc = "none" /\ brightness = lastCall.first)
    /\ lastCall.op = "getBrightness" =>
          (lastCall.exc = "none" /\ lastCall.ret = brightness)

\* C6 as stated: in every state from construction on, len(strip) and
\* numPixels() equal the configured pixel count.
LenAlwaysNum == PyLen = size /\ numPixels = size

\* C6 amended: len(strip) and numPixels() are 0 from construction until a
\* begin() succeeds and equal num in every state after that, across writes,
\* show(), off() and _cleanup(); the length changes in a successful begin()
\* only.
LenAfterBegin ==
    /\ [](PyLen \in {0, size} /\ numPixels = PyLen)
    /\ []((lastCall.op = "begin" /\ lastCall.exc = "none") => PyLen = size)
    /\ [][/\ PyLen = size => Len(view') = size
          /\ Len(view') # PyLen => (lastCall'.op = "begin" /\ lastCall'.exc = "none")
         ]_vars

\* C6 witness: off() has run on a strip of at least one pixel after begin().
OffAfterBegin ==
    /\ lastCall.op = "off"
    /\ size > 0
    /\ PyLen = size
    /\ initialized

\* The packed 32-bit layout  w<<24 | r<<16 | g<<8 | b  of four bytes.
Packed(r, g, b, w) == Norm(<<b, g, r, w>>)

InRange(c) == \A i \in 1..4 : c[i] \in 0..255

\* C7: for r, g, b, w in [0,255] the pixel Color(r, g, b, w) reads back
\* r, g, b and w and is the packed value w<<24 | r<<16 | g<<8 | b.
ColorRoundTrip ==
    (colorOut.done /\ InRange(colorIn)) =>
        /\ RGBW_r(colorOut.pix) = colorIn[1]
        /\ RGBW_g(colorOut.pix) = colorIn[2]
        /\ RGBW_b(colorOut.pix) = colorIn[3]
        /\ RGBW_w(colorOut.pix) = colorIn[4]
        /\ colorOut.pix = Packed(colorIn[1], colorIn[2], colorIn[3], colorIn[4])

\* C7 witness: Color has packed four distinct in-range components.
ColorPacked ==
    /\ colorOut.done
    /\ colorIn = <<255, 128, 1, 0>>

\* C8: for every non-negative r, g, b, w the pixel Color(r, g, b, w) reads
\* back each component modulo 256 and stays within 32 bits.
ComponentsMasked ==
    colorOut.done =>
        /\ RGBW_r(colorOut.pix) = colorIn[1] % 256
        /\ RGBW_g(colorOut.pix) = colorIn[2] % 256
        /\ RGBW_b(colorOut.pix) = colorIn[3] % 256
        /\ RGBW_w(colorOut.pix) = colorIn[4] % 256
        /\ Len(colorOut.pix) <= 4

SubStripRange ==
    /\ NumCallInRange =>
          /\ lastCall.exc = "none"
          /\ \E s \in subs : s.first = lastCall.first /\ Len(SubView(s)) = lastCall.num
    /\ (/\ lastCall.op = "createPixelSubStrip"
        /\ initialized
        /\ lastCall.num = None
        /\ lastCall.last # None
        /\ lastCall.first <= lastCall.last
        /\ lastCall.last <= PyLen) =>
          /\ lastCall.exc = "none"
          /\ \E s \in subs : s.first = lastCall.first /\ s.last = lastCall.last
    /\ (/\ lastCall.op = "createPixelSubStrip"
        /\ initialized
        /\ \/ (lastCall.last = None /\ lastCall.num # None
                 /\ lastCall.first + lastCall.num > PyLen)
           \/ (lastCall.num = None /\ lastCall.last # None /\ lastCall.last > PyLen))
          => lastCall.exc = "InvalidStrip"

====
